---- MODULE Spec2Model ----
(***************************************************************************)
(* A model of scrapy-tenable: the full-feed spider, the incremental        *)
(* (since_date) spider, the prototype feed script and the MongoDB          *)
(* pipeline.  Scrapy itself is modelled only as far as the spiders rely on *)
(* it: it pulls start_requests one request at a time, keeps the yielded    *)
(* requests outstanding, delivers a response to the request's callback     *)
(* (a non-200 response is dropped by its HttpError middleware and never    *)
(* reaches the callback), contains an exception raised by a callback to    *)
(* that callback, and hands every yielded item to process_item.            *)
(***************************************************************************)
EXTENDS Integers, Sequences, FiniteSets, TLC

VARIABLES
    mode,        \* which program runs: "full", "since" or "proto"
    pc,          \* position of the run: "new", "parsing", "yielding",
                 \* "running" (start_requests exhausted), "done" (the
                 \* prototype has printed) or "crashed"
    feed,        \* the downloaded feed: [ok, records]
    pos,         \* index of the next depth-2 record handed to the callback
    plugin_ids,  \* FullTenableSpider.plugin_ids / test.py plugin_ids
    since_date,  \* the since_date argument of SinceTenableSpider
    dates,       \* SinceTenableSpider.dates
    next_start,  \* index of the next element start_requests will yield for
    inflight,    \* bag of requests yielded and not yet answered
    issued,      \* bag of every request yielded so far
    collection,  \* the MongoDB collection: sequence of documents
    errlog,      \* bag of the keys spider.logger.error was called with
    run,         \* which crawl of this process is under way: 1, 2, ...
    last         \* what the most recent step did

vars == <<mode, pc, feed, pos, plugin_ids, since_date, dates, next_start,
          inflight, issued, collection, errlog, run, last>>

----------------------------------------------------------------------------
(* Bounds of the model *)

MaxFeed == 3       \* records in a feed
MaxHits == 2       \* hits on one search page
MaxBack == 2       \* how many days before today since_date may lie

----------------------------------------------------------------------------
(* Text <-> integer conversions.  A text is a sequence of characters. *)

Digits == <<"0", "1", "2", "3", "4", "5", "6", "7", "8", "9">>

IsDigit(c) == \E d \in 1..10 : Digits[d] = c

DigitVal(c) == (CHOOSE d \in 1..10 : Digits[d] = c) - 1

RECURSIVE DigitsValue(_)
DigitsValue(t) ==
    IF t = <<>> THEN 0
    ELSE 10 * DigitsValue(SubSeq(t, 1, Len(t) - 1)) + DigitVal(t[Len(t)])

RECURSIVE Strip(_)
Strip(t) ==
    IF t = <<>> THEN t
    ELSE IF t[1] = " " THEN Strip(Tail(t))
    ELSE IF t[Len(t)] = " " THEN Strip(SubSeq(t, 1, Len(t) - 1))
    ELSE t

\* Python's int(str): surrounding whitespace is stripped, one optional sign,
\* then at least one decimal digit and nothing else; anything else raises
\* ValueError.  [ok |-> FALSE] stands for the raise.
ParseInt(text) ==
    LET s     == Strip(text)
        neg   == s # <<>> /\ s[1] = "-"
        body  == IF s # <<>> /\ s[1] \in {"-", "+"} THEN Tail(s) ELSE s
    IN  IF body # <<>> /\ \A i \in 1..Len(body) : IsDigit(body[i])
        THEN [ok |-> TRUE,
              val |-> IF neg THEN 0 - DigitsValue(body) ELSE DigitsValue(body)]
        ELSE [ok |-> FALSE, val |-> 0]

\* Python's str(int) / f"{n}" for an integer: minimal decimal digits.
RECURSIVE NatText(_)
NatText(n) ==
    IF n < 10 THEN <<Digits[n + 1]>>
    ELSE Append(NatText(n \div 10), Digits[(n % 10) + 1])

IntText(n) == IF n < 0 THEN <<"-">> \o NatText(0 - n) ELSE NatText(n)

----------------------------------------------------------------------------
(* The range filter, once per place the code writes it *)

\* the first range closed at 98000
FeedRangeInclusive(script_id) ==
    \/ (10001 <= script_id /\ script_id <= 98000)
    \/ (99000 <= script_id /\ script_id < 112290)
    \/ (117291 <= script_id /\ script_id < 500000)

\* tenable.py line 94
FeedRange(script_id) ==
    \/ (10001 <= script_id /\ script_id < 98000)
    \/ (99000 <= script_id /\ script_id < 112290)
    \/ (117291 <= script_id /\ script_id < 500000)

\* the third range without its upper end
PageRangeUnbounded(script_id) ==
    \/ (10001 <= script_id /\ script_id < 98000)
    \/ (99000 <= script_id /\ script_id < 112290)
    \/ 117291 <= script_id

\* tenable.py line 219
PageRange(script_id) ==
    \/ (10001 <= script_id /\ script_id < 98000)
    \/ (99000 <= script_id /\ script_id < 112290)
    \/ (117291 <= script_id /\ script_id < 500000)

\* test.py line 9: list(range(10001, 98000)) + list(range(99000, 112290))
\* + list(range(117291, 500000)), kept as its three range() pieces; range(lo,
\* hi) holds lo..hi-1
TENABLE_RANGES ==
    <<[lo |-> 10001, hi |-> 98000], [lo |-> 99000, hi |-> 112290],
      [lo |-> 117291, hi |-> 500000]>>

\* test.py line 21: script_id in TENABLE_RANGES
InTenableRanges(script_id) ==
    \E r \in 1..Len(TENABLE_RANGES) :
        script_id \in TENABLE_RANGES[r].lo .. (TENABLE_RANGES[r].hi - 1)

----------------------------------------------------------------------------
(* Values *)

\* dict.get(key) of Python: <<v>> when the key is present, <<>> (None) when not
Get(d, k) == IF k \in DOMAIN d THEN <<d[k]>> ELSE <<>>

EmptyDict == [k \in {} |-> 0]

\* A depth-2 item as xmltodict hands it to item_callback: a dict of the
\* record's child elements, or something else (a text-only or empty element).
Nasl(text) == [isdict |-> TRUE, fields |-> ("script_id" :> text)]
NaslNoId == [isdict |-> TRUE, fields |-> ("script_name" :> <<"n">>)]
NaslNotDict == [isdict |-> FALSE, fields |-> EmptyDict]

\* Requests: the URL and the callback.  A detail URL embeds the identifier
\* text; a search URL carries the day and the page parameters appended to it.
DetailUrl(text) == [endpoint |-> "nessus", plugin |-> text]
SearchUrl(day) == [endpoint |-> "search", day |-> day, page |-> <<>>]
Request(url, callback) == [url |-> url, callback |-> callback]

----------------------------------------------------------------------------
(* Bags of requests *)

BagAdd(b, r) ==
    IF r \in DOMAIN b THEN [b EXCEPT ![r] = @ + 1] ELSE b @@ (r :> 1)

BagRemove(b, r) ==
    IF b[r] > 1 THEN [b EXCEPT ![r] = @ - 1]
    ELSE [x \in DOMAIN b \ {r} |-> b[x]]

RECURSIVE BagAddAll(_, _)
BagAddAll(b, rs) ==
    IF rs = <<>> THEN b ELSE BagAddAll(BagAdd(b, Head(rs)), Tail(rs))

BagCount(b, r) == IF r \in DOMAIN b THEN b[r] ELSE 0

EmptyBag == [r \in {} |-> 0]

----------------------------------------------------------------------------
(* FullTenableSpider *)

\* _extract_script_id(self, _, nasl): the new plugin_ids, or the exception
\* that nasl["script_id"] (KeyError) or int(...) (ValueError) raises.
ExtractScriptId(ids, nasl) ==
    IF ~nasl.isdict THEN [raised |-> FALSE, plugin_ids |-> ids]
    ELSE IF "script_id" \notin DOMAIN nasl.fields
    THEN [raised |-> TRUE, plugin_ids |-> ids]
    ELSE LET script_id == ParseInt(nasl.fields["script_id"])
         IN  IF ~script_id.ok THEN [raised |-> TRUE, plugin_ids |-> ids]
             ELSE IF FeedRange(script_id.val)
             THEN [raised |-> FALSE,
                   plugin_ids |-> Append(ids, nasl.fields["script_id"])]
             ELSE [raised |-> FALSE, plugin_ids |-> ids]

\* test.py _extract_script_id: the same callback over the global plugin_ids,
\* with the membership test against TENABLE_RANGES
ProtoExtractScriptId(ids, nasl) ==
    IF ~nasl.isdict THEN [raised |-> FALSE, plugin_ids |-> ids]
    ELSE IF "script_id" \notin DOMAIN nasl.fields
    THEN [raised |-> TRUE, plugin_ids |-> ids]
    ELSE LET script_id == ParseInt(nasl.fields["script_id"])
         IN  IF ~script_id.ok THEN [raised |-> TRUE, plugin_ids |-> ids]
             ELSE IF InTenableRanges(script_id.val)
             THEN [raised |-> FALSE,
                   plugin_ids |-> Append(ids, nasl.fields["script_id"])]
             ELSE [raised |-> FALSE, plugin_ids |-> ids]

\* parse_plugin yielding j["data"] instead of j["data"]["_source"]
ParsePluginFullData(response) ==
    IF ~response.json_ok THEN [raised |-> TRUE, out |-> <<>>]
    ELSE IF "data" \notin DOMAIN response.j
    THEN [raised |-> TRUE, out |-> <<>>]
    ELSE [raised |-> FALSE, out |-> <<response.j["data"]>>]

\* parse_plugin(self, response) of FullTenableSpider: json.loads raises on a
\* body that is not JSON, j["data"]["_source"] raises KeyError on a missing key
ParsePluginFull(response) ==
    IF ~response.json_ok THEN [raised |-> TRUE, out |-> <<>>]
    ELSE IF "data" \notin DOMAIN response.j
    THEN [raised |-> TRUE, out |-> <<>>]
    ELSE IF "_source" \notin DOMAIN response.j["data"]
    THEN [raised |-> TRUE, out |-> <<>>]
    ELSE [raised |-> FALSE, out |-> <<response.j["data"]["_source"]>>]

----------------------------------------------------------------------------
(* SinceTenableSpider *)

\* today's date as a day number; days are counted so that the earliest
\* since_date of the model is day 0
Today == MaxBack

\* __init__ comparing since_date itself, and strictly, with today
SinceInitLate(since) ==
    IF ~since.valid THEN [raised |-> TRUE, dates |-> <<>>]
    ELSE LET start_date == since.day + 1
         IN  IF since.day > Today THEN [raised |-> TRUE, dates |-> <<>>]
             ELSE [raised |-> FALSE,
                   dates |-> [day \in 1..((Today - start_date) + 1)
                                 |-> start_date + (day - 1)]]

\* __init__ with range((today - start_date).days), without the + 1
SinceInitShort(since) ==
    IF ~since.valid THEN [raised |-> TRUE, dates |-> <<>>]
    ELSE LET start_date == since.day + 1
         IN  IF start_date >= Today THEN [raised |-> TRUE, dates |-> <<>>]
             ELSE [raised |-> FALSE,
                   dates |-> [day \in 1..(Today - start_date)
                                 |-> start_date + (day - 1)]]

\* __init__(self, since_date): since_date is [valid, day]; an invalid text
\* makes date.fromisoformat raise ValueError
SinceInit(since) ==
    IF ~since.valid THEN [raised |-> TRUE, dates |-> <<>>]
    ELSE LET start_date == since.day + 1
         IN  IF start_date >= Today THEN [raised |-> TRUE, dates |-> <<>>]
             ELSE [raised |-> FALSE,
                   dates |-> [day \in 1..((Today - start_date) + 1)
                                 |-> start_date + (day - 1)]]

\* scape_page(self, response): a generator; the requests it yields before it
\* returns or raises.  int(None) raises TypeError for a hit without
\* _source.script_id; what was yielded before stays yielded.
RECURSIVE ScapeHits(_)
ScapeHits(hits) ==
    IF hits = <<>> THEN [raised |-> FALSE, out |-> <<>>]
    ELSE LET result == Head(hits)
             source == IF "_source" \in DOMAIN result
                       THEN result["_source"] ELSE EmptyDict
             got == Get(source, "script_id")
         IN  IF got = <<>> THEN [raised |-> TRUE, out |-> <<>>]
             ELSE LET script_id == got[1]
                      rest == ScapeHits(Tail(hits))
                      mine == IF PageRange(script_id)
                              THEN <<Request(DetailUrl(IntText(script_id)),
                                             "parse_plugin")>>
                              ELSE <<>>
                  IN  [raised |-> rest.raised, out |-> mine \o rest.out]

ScapePage(response) ==
    IF ~response.json_ok THEN [raised |-> TRUE, out |-> <<>>]
    ELSE LET data == IF "data" \in DOMAIN response.j
                     THEN response.j["data"] ELSE EmptyDict
             hits == IF "hits" \in DOMAIN data THEN data["hits"] ELSE <<>>
         IN  ScapeHits(hits)

\* scrape_all_pages with the page count rounded up instead of "// 50 + 1"
ScrapeAllPagesCeil(response) ==
    IF ~response.json_ok THEN [raised |-> TRUE, out |-> <<>>]
    ELSE LET data == IF "data" \in DOMAIN response.j
                     THEN response.j["data"] ELSE EmptyDict
             total == Get(data, "total")
         IN  IF total = <<>> THEN [raised |-> TRUE, out |-> <<>>]
             ELSE LET total_results == total[1]
                      pages == (total_results + 49) \div 50
                  IN  [raised |-> FALSE,
                       out |-> [i \in 1..(IF pages >= 2 THEN pages - 1 ELSE 0)
                                 |-> Request([response.url EXCEPT
                                                 !.page = @ \o <<i + 1>>],
                                             "scape_page")]]

\* scrape_all_pages with range(1, pages + 1): page 1 is requested again
ScrapeAllPagesFromOne(response) ==
    IF ~response.json_ok THEN [raised |-> TRUE, out |-> <<>>]
    ELSE LET data == IF "data" \in DOMAIN response.j
                     THEN response.j["data"] ELSE EmptyDict
             total == Get(data, "total")
         IN  IF total = <<>> THEN [raised |-> TRUE, out |-> <<>>]
             ELSE LET total_results == total[1]
                      pages == (total_results \div 50) + 1
                  IN  [raised |-> FALSE,
                       out |-> [i \in 1..pages
                                 |-> Request([response.url EXCEPT
                                                 !.page = @ \o <<i>>],
                                             "scape_page")]]

\* scrape_all_pages(self, response): a generator.  self.scape_page(response)
\* only creates a generator object that nothing iterates, so its body never
\* runs and what it would yield is not part of this callback's output.
ScrapeAllPages(response) ==
    IF ~response.json_ok THEN [raised |-> TRUE, out |-> <<>>]
    ELSE LET data == IF "data" \in DOMAIN response.j
                     THEN response.j["data"] ELSE EmptyDict
             total == Get(data, "total")
         IN  IF total = <<>> THEN [raised |-> TRUE, out |-> <<>>]
             ELSE LET total_results == total[1]
                      pages == (total_results \div 50) + 1
                  IN  [raised |-> FALSE,
                       out |-> [i \in 1..(IF pages >= 2 THEN pages - 1 ELSE 0)
                                 |-> Request([response.url EXCEPT
                                                 !.page = @ \o <<i + 1>>],
                                             "scape_page")]]

\* parse_plugin yielding its record twice
ParsePluginSinceTwice(response) ==
    IF ~response.json_ok THEN [raised |-> TRUE, out |-> <<>>]
    ELSE IF "data" \notin DOMAIN response.j
    THEN [raised |-> TRUE, out |-> <<>>]
    ELSE IF "_source" \notin DOMAIN response.j["data"]
    THEN [raised |-> TRUE, out |-> <<>>]
    ELSE [raised |-> FALSE,
          out |-> <<response.j["data"]["_source"],
                    response.j["data"]["_source"]>>]

\* parse_plugin(self, response) of SinceTenableSpider
ParsePluginSince(response) ==
    IF ~response.json_ok THEN [raised |-> TRUE, out |-> <<>>]
    ELSE IF "data" \notin DOMAIN response.j
    THEN [raised |-> TRUE, out |-> <<>>]
    ELSE IF "_source" \notin DOMAIN response.j["data"]
    THEN [raised |-> TRUE, out |-> <<>>]
    ELSE [raised |-> FALSE, out |-> <<response.j["data"]["_source"]>>]

----------------------------------------------------------------------------
(* MongoDBPipeline *)

\* collection.update_one({'script_id': key}, {'$set': data}, upsert=True):
\* the first document whose script_id equals the key (a document without the
\* field matches the key None) gets every field of data set and keeps its
\* other fields; when no document matches, one is inserted.
RECURSIVE FirstMatch(_, _, _)
FirstMatch(coll, key, i) ==
    IF i > Len(coll) THEN 0
    ELSE IF Get(coll[i], "script_id") = key THEN i
    ELSE FirstMatch(coll, key, i + 1)

\* the matched document replaced by the record (replace_one, or update_one
\* without $set)
SetFieldsReplace(doc, data) == data

SetFields(doc, data) ==
    [f \in DOMAIN doc \cup DOMAIN data |->
        IF f \in DOMAIN data THEN data[f] ELSE doc[f]]

\* insert_one in place of the upsert
UpdateOneInsert(coll, key, data) == Append(coll, data)

UpdateOneUpsert(coll, key, data) ==
    LET i == FirstMatch(coll, key, 1)
    IN  IF i = 0 THEN Append(coll, data)
        ELSE [coll EXCEPT ![i] = SetFields(@, data)]

\* process_item without the try/except around update_one
ProcessItemNoCatch(coll, item, store_ok) ==
    LET data == item
        key == Get(data, "script_id")
    IN  IF store_ok
        THEN [collection |-> UpdateOneUpsert(coll, key, data),
              logged |-> <<>>, raised |-> FALSE, returned |-> <<item>>]
        ELSE [collection |-> coll,
              logged |-> <<>>, raised |-> TRUE, returned |-> <<>>]

\* process_item(self, item, spider); store_ok = FALSE is update_one raising
\* a PyMongoError
ProcessItem(coll, item, store_ok) ==
    LET data == item
        key == Get(data, "script_id")
    IN  IF store_ok
        THEN [collection |-> UpdateOneUpsert(coll, key, data),
              logged |-> <<>>, raised |-> FALSE, returned |-> <<item>>]
        ELSE [collection |-> coll,
              logged |-> <<key>>, raised |-> FALSE, returned |-> <<item>>]

----------------------------------------------------------------------------
(* Inputs: what the feed, the search API and the detail API may answer *)

RECURSIVE SeqsUpTo(_, _)
SeqsUpTo(S, n) ==
    IF n = 0 THEN {<<>>}
    ELSE LET shorter == SeqsUpTo(S, n - 1)
         IN  shorter \cup {Append(q, x) : q \in shorter, x \in S}

\* feed records: unfetchable, fetchable, Tenable.OT, and the malformed shapes
NaslSamples ==
    {NaslNotDict, NaslNoId, Nasl(<<"a", "b", "c">>)}
        \cup {Nasl(IntText(i)) : i \in {5000, 10001, 99000, 600000}}

Feeds(samples, n) ==
    {[ok |-> FALSE, records |-> <<>>]}
        \cup {[ok |-> TRUE, records |-> rs] : rs \in SeqsUpTo(samples, n)}

Hit(script_id) == "_source" :> ("script_id" :> script_id)
HitNoSource == "_id" :> 1

HitSamples == {Hit(5000), Hit(10001), HitNoSource}

Response(url, status, json_ok, j) ==
    [url |-> url, status |-> status, json_ok |-> json_ok, j |-> j]

\* answers to a search request: not 200, not JSON, without data.total, or
\* data.total and data.hits
SearchResponses(url, totals, hitseqs) ==
    {Response(url, 404, FALSE, EmptyDict), Response(url, 200, FALSE, EmptyDict),
     Response(url, 200, TRUE, "data" :> ("hits" :> <<>>))}
        \cup {Response(url, 200, TRUE,
                       "data" :> (("total" :> t) @@ ("hits" :> h)))
                 : t \in totals, h \in hitseqs}

\* the well-formed answers among them
GoodSearchResponses(url, totals, hitseqs) ==
    {r \in SearchResponses(url, totals, hitseqs) :
        r.status = 200 /\ r.json_ok /\ "total" \in DOMAIN r.j["data"]}

RecA(k) == [script_id |-> k, name |-> "a", risk |-> "high"]
RecB(k) == [script_id |-> k, name |-> "b"]
RecNoKey == [name |-> "c"]

\* answers to a detail request that carry no record: not 200, not JSON,
\* without data, without data._source
FailedDetailResponses(url) ==
    {Response(url, 404, FALSE, EmptyDict),
     Response(url, 200, FALSE, EmptyDict),
     Response(url, 200, TRUE, EmptyDict),
     Response(url, 200, TRUE, "data" :> EmptyDict)}

\* answers to a detail request of the full crawl: a failure, or one of three
\* records (the last without script_id)
DetailResponses(url) ==
    LET k == ParseInt(url.plugin).val
    IN  FailedDetailResponses(url)
            \cup {Response(url, 200, TRUE, "data" :> ("_source" :> rec))
                     : rec \in {RecA(k), RecB(k), RecNoKey}}

\* answers to a detail request of the incremental crawl: a failure, or the
\* record of the identifier
SinceDetailResponses(url) ==
    LET k == ParseInt(url.plugin).val
    IN  FailedDetailResponses(url)
            \cup {Response(url, 200, TRUE, "data" :> ("_source" :> RecA(k)))}

\* the record of the identifier, every time
GoodDetailResponses(url) ==
    SinceDetailResponses(url) \ FailedDetailResponses(url)

----------------------------------------------------------------------------
(* What a step leaves in `last` *)

Step(op, arg, raised, out, sink) ==
    [op |-> op, arg |-> arg, raised |-> raised, out |-> out, sink |-> sink]

NoStep == Step("none", 0, FALSE, <<>>, <<>>)

\* Scrapy hands each item a callback yields to process_item, in order
RECURSIVE SinkAll(_, _, _, _)
SinkAll(coll, log, items, store_ok) ==
    IF items = <<>> THEN [collection |-> coll, errlog |-> log, calls |-> <<>>]
    ELSE LET r == ProcessItem(coll, Head(items), store_ok)
             rest == SinkAll(r.collection, BagAddAll(log, r.logged),
                             Tail(items), store_ok)
         IN  [collection |-> rest.collection, errlog |-> rest.errlog,
              calls |-> <<[item |-> Head(items), store_ok |-> store_ok,
                           logged |-> r.logged, raised |-> r.raised,
                           returned |-> r.returned]>> \o rest.calls]

----------------------------------------------------------------------------
(* Initial states *)

InitCommon ==
    /\ pc = "new"
    /\ pos = 1
    /\ plugin_ids = <<>>
    /\ dates = <<>>
    /\ next_start = 1
    /\ inflight = EmptyBag
    /\ issued = EmptyBag
    /\ collection = <<>>
    /\ errlog = EmptyBag
    /\ run = 1
    /\ last = NoStep

NoFeed == [ok |-> FALSE, records |-> <<>>]
NoSince == [valid |-> FALSE, day |-> 0]

SinceDates ==
    {NoSince} \cup {[valid |-> TRUE, day |-> d] : d \in 0..(Today + 1)}

InitFull ==
    /\ mode = "full"
    /\ feed \in Feeds(NaslSamples, MaxFeed)
    /\ since_date = NoSince
    /\ InitCommon

InitProto ==
    /\ mode = "proto"
    /\ feed \in Feeds(NaslSamples, MaxFeed)
    /\ since_date = NoSince
    /\ InitCommon

InitSince ==
    /\ mode = "since"
    /\ feed = NoFeed
    /\ since_date \in SinceDates
    /\ InitCommon

----------------------------------------------------------------------------
(* FullTenableSpider.start_requests *)

\* lines 57-61: the streamed download; a network failure raises
FullDownload ==
    /\ mode = "full" /\ pc = "new"
    /\ pc' = IF feed.ok THEN "parsing" ELSE "crashed"
    /\ last' = Step("download", 0, ~feed.ok, <<>>, <<>>)
    /\ UNCHANGED <<run, errlog, mode, feed, pos, plugin_ids, since_date, dates, next_start,
                   inflight, issued, collection>>

\* line 64: xmltodict calls _extract_script_id for the next depth-2 record;
\* an exception of the callback ends xmltodict.parse and start_requests
FullParseRecord ==
    /\ mode = "full" /\ pc = "parsing" /\ pos <= Len(feed.records)
    /\ LET r == ExtractScriptId(plugin_ids, feed.records[pos])
       IN  /\ plugin_ids' = r.plugin_ids
           /\ pc' = IF r.raised THEN "crashed" ELSE "parsing"
           /\ pos' = IF r.raised THEN pos ELSE pos + 1
           /\ last' = Step("_extract_script_id", feed.records[pos], r.raised,
                           <<>>, <<>>)
    /\ UNCHANGED <<run, errlog, mode, feed, since_date, dates, next_start, inflight,
                   issued, collection>>

\* lines 64-66: the document is exhausted, the parse returns
FullParseDone ==
    /\ mode = "full" /\ pc = "parsing" /\ pos > Len(feed.records)
    /\ pc' = "yielding"
    /\ next_start' = 1
    /\ last' = Step("parse_done", Len(plugin_ids), FALSE, <<>>, <<>>)
    /\ UNCHANGED <<run, errlog, mode, feed, pos, plugin_ids, since_date, dates, inflight,
                   issued, collection>>

\* the loop over self.plugin_ids started while the parse is still running
CanYieldEarly == pc \in {"parsing", "yielding"}

\* lines 64-68: the loop over self.plugin_ids starts once xmltodict.parse
\* has returned
CanYieldDetail == pc = "yielding"

\* lines 68-70: one turn of the loop over self.plugin_ids
FullYield ==
    /\ mode = "full" /\ CanYieldDetail /\ next_start <= Len(plugin_ids)
    /\ LET req == Request(DetailUrl(plugin_ids[next_start]), "parse_plugin")
       IN  /\ inflight' = BagAdd(inflight, req)
           /\ issued' = BagAdd(issued, req)
           /\ last' = Step("start_requests", next_start, FALSE, <<req>>, <<>>)
    /\ next_start' = next_start + 1
    /\ UNCHANGED <<run, errlog, mode, pc, feed, pos, plugin_ids, since_date, dates,
                   collection>>

FullExhausted ==
    /\ mode = "full" /\ pc = "yielding" /\ next_start > Len(plugin_ids)
    /\ pc' = "running"
    /\ last' = Step("start_requests_end", 0, FALSE, <<>>, <<>>)
    /\ UNCHANGED <<run, errlog, mode, feed, pos, plugin_ids, since_date, dates, next_start,
                   inflight, issued, collection>>

\* a detail response arrives: parse_plugin, then process_item for its item.
\* a reliable upstream answers with the record and the store accepts it.
FullDetailArrives(reliable) ==
    /\ mode = "full"
    /\ \E req \in DOMAIN inflight :
         /\ req.callback = "parse_plugin"
         /\ \E response \in IF reliable THEN GoodDetailResponses(req.url)
                            ELSE DetailResponses(req.url),
               store_ok \in IF reliable THEN {TRUE} ELSE BOOLEAN :
              LET called == response.status = 200
                  r == IF called THEN ParsePluginFull(response)
                       ELSE [raised |-> FALSE, out |-> <<>>]
                  s == SinkAll(collection, errlog, r.out, store_ok)
              IN  /\ (r.out = <<>> => store_ok)
                  /\ inflight' = BagRemove(inflight, req)
                  /\ collection' = s.collection
                  /\ errlog' = s.errlog
                  /\ last' = Step(IF called THEN "parse_plugin"
                                  ELSE "http_error",
                                  response, r.raised, r.out, s.calls)
    /\ UNCHANGED <<run, mode, pc, feed, pos, plugin_ids, since_date, dates,
                   next_start, issued>>

FullDeliverDetail == FullDetailArrives(FALSE)

NextFull ==
    \/ FullDownload
    \/ FullParseRecord
    \/ FullParseDone
    \/ FullYield
    \/ FullExhausted
    \/ FullDeliverDetail

SpecFull == InitFull /\ [][NextFull]_vars

----------------------------------------------------------------------------
(* test.py: the prototype script *)

\* line 29: gzip.GzipFile(...) of the local feed file, which may be missing
ProtoOpen ==
    /\ mode = "proto" /\ pc = "new"
    /\ pc' = IF feed.ok THEN "parsing" ELSE "crashed"
    /\ last' = Step("open", 0, ~feed.ok, <<>>, <<>>)
    /\ UNCHANGED <<run, errlog, mode, feed, pos, plugin_ids, since_date, dates, next_start,
                   inflight, issued, collection>>

\* line 29: xmltodict calls _extract_script_id for the next depth-2 record
ProtoParseRecord ==
    /\ mode = "proto" /\ pc = "parsing" /\ pos <= Len(feed.records)
    /\ LET r == ProtoExtractScriptId(plugin_ids, feed.records[pos])
       IN  /\ plugin_ids' = r.plugin_ids
           /\ pc' = IF r.raised THEN "crashed" ELSE "parsing"
           /\ pos' = IF r.raised THEN pos ELSE pos + 1
           /\ last' = Step("_extract_script_id", feed.records[pos], r.raised,
                           <<>>, <<>>)
    /\ UNCHANGED <<run, errlog, mode, feed, since_date, dates, next_start, inflight,
                   issued, collection>>

\* line 30: print(len(plugin_ids))
ProtoPrint ==
    /\ mode = "proto" /\ pc = "parsing" /\ pos > Len(feed.records)
    /\ pc' = "done"
    /\ last' = Step("print", Len(plugin_ids), FALSE, <<>>, <<>>)
    /\ UNCHANGED <<run, errlog, mode, feed, pos, plugin_ids, since_date, dates, next_start,
                   inflight, issued, collection>>

NextProto ==
    \/ ProtoOpen
    \/ ProtoParseRecord
    \/ ProtoPrint

----------------------------------------------------------------------------
(* SinceTenableSpider *)

\* __init__: a ValueError ends the run before the spider exists
SinceConstruct ==
    /\ mode = "since" /\ pc = "new"
    /\ LET r == SinceInit(since_date)
       IN  /\ dates' = r.dates
           /\ pc' = IF r.raised THEN "crashed" ELSE "yielding"
           /\ last' = Step("__init__", since_date, r.raised, <<>>, <<>>)
    /\ next_start' = 1
    /\ UNCHANGED <<run, errlog, mode, feed, pos, plugin_ids, since_date, inflight, issued,
                   collection>>

\* start_requests, lines 172-176: one turn of the loop over self.dates
SinceYield ==
    /\ mode = "since" /\ pc = "yielding" /\ next_start <= Len(dates)
    /\ LET req == Request(SearchUrl(dates[next_start]), "scrape_all_pages")
       IN  /\ inflight' = BagAdd(inflight, req)
           /\ issued' = BagAdd(issued, req)
           /\ last' = Step("start_requests", next_start, FALSE, <<req>>, <<>>)
    /\ next_start' = next_start + 1
    /\ UNCHANGED <<run, errlog, mode, pc, feed, pos, plugin_ids, since_date, dates,
                   collection>>

SinceExhausted ==
    /\ mode = "since" /\ pc = "yielding" /\ next_start > Len(dates)
    /\ pc' = "running"
    /\ last' = Step("start_requests_end", 0, FALSE, <<>>, <<>>)
    /\ UNCHANGED <<run, errlog, mode, feed, pos, plugin_ids, since_date, dates, next_start,
                   inflight, issued, collection>>

\* the first search response of a date arrives: scrape_all_pages.
\* a reliable upstream answers every request well-formed.
SinceFirstArrives(reliable, totals, hitseqs) ==
    /\ mode = "since"
    /\ \E req \in DOMAIN inflight :
         /\ req.callback = "scrape_all_pages"
         /\ \E response \in
                  IF reliable
                  THEN GoodSearchResponses(req.url, totals, hitseqs)
                  ELSE SearchResponses(req.url, totals, hitseqs) :
              LET called == response.status = 200
                  r == IF called THEN ScrapeAllPages(response)
                       ELSE [raised |-> FALSE, out |-> <<>>]
              IN  /\ inflight' = BagAddAll(BagRemove(inflight, req), r.out)
                  /\ issued' = BagAddAll(issued, r.out)
                  /\ last' = Step(IF called THEN "scrape_all_pages"
                                  ELSE "http_error",
                                  response, r.raised, r.out, <<>>)
    /\ UNCHANGED <<run, errlog, mode, pc, feed, pos, plugin_ids, since_date, dates,
                   next_start, collection>>

SinceDeliverFirst(totals, hitseqs) ==
    SinceFirstArrives(FALSE, totals, hitseqs)

\* the response of a follow-up page arrives: scape_page
SincePageArrives(reliable, totals, hitseqs) ==
    /\ mode = "since"
    /\ \E req \in DOMAIN inflight :
         /\ req.callback = "scape_page"
         /\ \E response \in
                  IF reliable
                  THEN GoodSearchResponses(req.url, totals, hitseqs)
                  ELSE SearchResponses(req.url, totals, hitseqs) :
              LET called == response.status = 200
                  r == IF called THEN ScapePage(response)
                       ELSE [raised |-> FALSE, out |-> <<>>]
              IN  /\ inflight' = BagAddAll(BagRemove(inflight, req), r.out)
                  /\ issued' = BagAddAll(issued, r.out)
                  /\ last' = Step(IF called THEN "scape_page"
                                  ELSE "http_error",
                                  response, r.raised, r.out, <<>>)
    /\ UNCHANGED <<run, errlog, mode, pc, feed, pos, plugin_ids, since_date, dates,
                   next_start, collection>>

SinceDeliverPage(totals, hitseqs) ==
    SincePageArrives(FALSE, totals, hitseqs)

\* a detail response arrives: parse_plugin, then process_item for its item.
\* a reliable upstream answers with the record and the store accepts it.
SinceDetailArrives(reliable) ==
    /\ mode = "since"
    /\ \E req \in DOMAIN inflight :
         /\ req.callback = "parse_plugin"
         /\ \E response \in IF reliable THEN GoodDetailResponses(req.url)
                            ELSE SinceDetailResponses(req.url),
               store_ok \in IF reliable THEN {TRUE} ELSE BOOLEAN :
              LET called == response.status = 200
                  r == IF called THEN ParsePluginSince(response)
                       ELSE [raised |-> FALSE, out |-> <<>>]
                  s == SinkAll(collection, errlog, r.out, store_ok)
              IN  /\ (r.out = <<>> => store_ok)
                  /\ inflight' = BagRemove(inflight, req)
                  /\ collection' = s.collection
                  /\ errlog' = s.errlog
                  /\ last' = Step(IF called THEN "parse_plugin"
                                  ELSE "http_error",
                                  response, r.raised, r.out, s.calls)
    /\ UNCHANGED <<run, mode, pc, feed, pos, plugin_ids, since_date, dates,
                   next_start, issued>>

SinceDeliverDetail == SinceDetailArrives(FALSE)

\* what the search API answers in the crawl: a date has no result, one
\* result or one full page of results; a first page lists nothing or one fetchable hit
Totals == {0, 1, 50}
FirstHitSeqs == {<<>>, <<Hit(10001)>>}
PageTotals == {50}
HitSeqs == SeqsUpTo(HitSamples, MaxHits)

NextSince ==
    \/ SinceConstruct
    \/ SinceYield
    \/ SinceExhausted
    \/ SinceDeliverFirst(Totals, FirstHitSeqs)
    \/ SinceDeliverPage(PageTotals, HitSeqs)
    \/ SinceDeliverDetail

SpecSince == InitSince /\ [][NextSince]_vars

----------------------------------------------------------------------------
(* The three programs together *)

Init == InitFull \/ InitSince \/ InitProto

Next == NextFull \/ NextSince \/ NextProto

Spec == Init /\ [][Next]_vars

----------------------------------------------------------------------------
(* The range filter on its boundaries: one-record feeds and one-hit pages *)

BoundaryIds ==
    {0 - 1, 0, 5000, 10000, 10001, 50000, 97999, 98000, 98500, 98999, 99000,
     112289, 112290, 115000, 117290, 117291, 300000, 499999, 500000, 600000}

InitFilter ==
    /\ mode \in {"full", "proto", "since"}
    /\ feed \in IF mode = "since" THEN {NoFeed}
                ELSE {[ok |-> TRUE, records |-> <<Nasl(IntText(i))>>]
                         : i \in BoundaryIds}
    /\ since_date = IF mode = "since" THEN [valid |-> TRUE, day |-> Today - 2]
                    ELSE NoSince
    /\ InitCommon

BoundaryHitSeqs == {<<Hit(i)>> : i \in BoundaryIds}

NextFilter ==
    \/ NextFull
    \/ NextProto
    \/ SinceConstruct
    \/ SinceYield
    \/ SinceExhausted
    \/ SinceDeliverFirst(Totals, FirstHitSeqs)
    \/ SinceDeliverPage(PageTotals, BoundaryHitSeqs)
    \/ SinceDeliverDetail

SpecFilter == InitFilter /\ [][NextFilter]_vars

\* RangeSet of the specification
RangeSet(i) ==
    \/ (10001 <= i /\ i < 98000)
    \/ (99000 <= i /\ i < 112290)
    \/ (117291 <= i /\ i < 500000)

\* the identifier texts a feed parser accepts from the records it has been
\* handed, when the filter is RangeSet
RECURSIVE RangeSetTexts(_)
RangeSetTexts(records) ==
    IF records = <<>> THEN <<>>
    ELSE LET nasl == Head(records)
             keep == /\ nasl.isdict
                     /\ "script_id" \in DOMAIN nasl.fields
                     /\ ParseInt(nasl.fields["script_id"]).ok
                     /\ RangeSet(ParseInt(nasl.fields["script_id"]).val)
         IN  (IF keep THEN <<nasl.fields["script_id"]>> ELSE <<>>)
                 \o RangeSetTexts(Tail(records))

\* the identifiers of the hits of a page that lie in RangeSet
RECURSIVE RangeSetHits(_)
RangeSetHits(hits) ==
    IF hits = <<>> THEN <<>>
    ELSE (IF RangeSet(Head(hits)["_source"]["script_id"])
          THEN <<Head(hits)["_source"]["script_id"]>> ELSE <<>>)
             \o RangeSetHits(Tail(hits))

WellFormedHits(hits) ==
    \A i \in 1..Len(hits) :
        /\ "_source" \in DOMAIN hits[i]
        /\ "script_id" \in DOMAIN hits[i]["_source"]

RejectedBoundaries == {10000, 98000, 112290, 117290, 500000}
AcceptedBoundaries == {10001, 97999, 112289, 117291, 499999}

\* C1: each of the three range filters (feed parser, page scraper, prototype
\* membership test) accepts an identifier exactly when it lies in
\* [10001,98000) or [99000,112290) or [117291,500000): the feed parsers have
\* accumulated exactly the RangeSet identifiers of the records handed to them,
\* scape_page yields a detail request exactly for the RangeSet hits of its
\* page, and the listed boundary values are decided as stated.
C1_RangeFilter ==
    /\ (mode \in {"full", "proto"} /\ feed.ok) =>
          /\ plugin_ids = RangeSetTexts(SubSeq(feed.records, 1, pos - 1))
          /\ \A i \in RejectedBoundaries \cup AcceptedBoundaries :
                (feed.records = <<Nasl(IntText(i))>> /\ pos = 2) =>
                    plugin_ids = IF i \in AcceptedBoundaries
                                 THEN <<IntText(i)>> ELSE <<>>
    /\ (last.op = "scape_page" /\ last.arg.json_ok
            /\ WellFormedHits(last.arg.j["data"]["hits"])) =>
          LET hits == last.arg.j["data"]["hits"]
              ids == RangeSetHits(hits)
          IN  /\ last.out = [n \in 1..Len(ids) |->
                               Request(DetailUrl(IntText(ids[n])),
                                       "parse_plugin")]
              /\ \A i \in RejectedBoundaries :
                    hits = <<Hit(i)>> => last.out = <<>>
              /\ \A i \in AcceptedBoundaries :
                    hits = <<Hit(i)>> => Len(last.out) = 1

\* a page with the single hit 117291 made scape_page yield its detail request
C1_Witness ==
    /\ last.op = "scape_page"
    /\ last.arg.j = "data" :> (("total" :> 50) @@ ("hits" :> <<Hit(117291)>>))
    /\ last.out = <<Request(DetailUrl(IntText(117291)), "parse_plugin")>>

----------------------------------------------------------------------------
(* Page 1 of a date *)

FirstPageHits(response) ==
    IF "hits" \in DOMAIN response.j["data"]
    THEN response.j["data"]["hits"] ELSE <<>>

\* C2: when scrape_all_pages has handled the first search response of a date,
\* a detail request has been scheduled for every fetchable hit of that
\* response, and no second request for page 1 of that date has been issued.
C2_FirstPageConsumed ==
    (last.op = "scrape_all_pages" /\ ~last.raised) =>
        /\ \A i \in 1..Len(FirstPageHits(last.arg)) :
              LET hit == FirstPageHits(last.arg)[i]
              IN  ("_source" \in DOMAIN hit
                      /\ "script_id" \in DOMAIN hit["_source"]
                      /\ RangeSet(hit["_source"]["script_id"])) =>
                    BagCount(issued,
                             Request(DetailUrl(IntText(
                                         hit["_source"]["script_id"])),
                                     "parse_plugin")) >= 1
        /\ BagCount(issued, Request(last.arg.url, "scrape_all_pages")) = 1
        /\ \A cb \in {"scrape_all_pages", "scape_page"} :
              BagCount(issued,
                       Request([last.arg.url EXCEPT !.page = <<1>>], cb)) = 0

----------------------------------------------------------------------------
(* Page counts: every result count up to MaxTotal *)

MaxTotal == 150

ManyTotals == 0..MaxTotal

\* two dates; first responses report any total of ManyTotals; the pages list
\* nothing fetchable, so no detail request exists
InitPages ==
    /\ mode = "since"
    /\ feed = NoFeed
    /\ since_date = [valid |-> TRUE, day |-> Today - 2]
    /\ InitCommon

NextPages ==
    \/ SinceConstruct
    \/ SinceYield
    \/ SinceExhausted
    \/ SinceDeliverFirst(ManyTotals, {<<>>})
    \/ SinceDeliverPage(PageTotals, {<<>>, <<Hit(5000)>>})

SpecPages == InitPages /\ [][NextPages]_vars

PageUrl(url, n) == [url EXCEPT !.page = @ \o <<n>>]

\* how many more times request r has been yielded after the step
Added(r) == BagCount(issued', r) - BagCount(issued, r)

\* C3: a scrape_all_pages step on a first response reporting total >= 0
\* yields, with N = floor(total / 50) + 1, exactly one request for each page
\* 2..N of that date (the response's URL with the page appended) and no other
\* request; total = 120 and total = 100 yield two, total < 50 yields
\* none; and no page request is ever issued twice or for page 1.
C3_PageCount ==
    [][(last'.op = "scrape_all_pages" /\ ~last'.raised) =>
          LET url == last'.arg.url
              total == last'.arg.j["data"]["total"]
              N == (total \div 50) + 1
              follow == {Request(PageUrl(url, n), "scape_page") : n \in 2..N}
          IN  /\ \A r \in follow : Added(r) = 1
              /\ \A r \in DOMAIN issued' \ follow : Added(r) = 0
              /\ \A r \in follow : BagCount(inflight', r) = 1
              /\ Len(last'.out) = Cardinality(follow)
              /\ (total \in {100, 120} => Cardinality(follow) = 2)
              /\ (total < 50 => follow = {})
              /\ \A r \in DOMAIN issued' :
                    r.callback = "scape_page" =>
                        /\ issued'[r] = 1
                        /\ Len(r.url.page) = 1
                        /\ r.url.page[1] >= 2
      ]_vars

\* a first response reporting 100 results led to requests for pages 2 and 3
C3_Witness ==
    /\ last.op = "scrape_all_pages"
    /\ ~last.raised
    /\ last.arg.j["data"]["total"] = 100
    /\ last.out = <<Request(PageUrl(last.arg.url, 2), "scape_page"),
                    Request(PageUrl(last.arg.url, 3), "scape_page")>>
    /\ BagCount(issued, Request(PageUrl(last.arg.url, 3), "scape_page")) = 1

----------------------------------------------------------------------------
(* Construction of the incremental spider *)

Constructed == mode = "since" /\ pc # "new"

\* C4: constructing the incremental spider with since_date = yesterday
\* succeeds, and its date window is the single date today.
C4_YesterdayWindow ==
    (Constructed /\ since_date.valid /\ since_date.day = Today - 1) =>
        /\ pc # "crashed"
        /\ dates = <<Today>>

\* C5: constructing the incremental spider with since_date = today or a
\* later date raises during construction, and the run never issues a
\* request.
C5_TodayOrLaterFails ==
    (Constructed /\ since_date.valid /\ since_date.day >= Today) =>
        /\ pc = "crashed"
        /\ last = Step("__init__", since_date, TRUE, <<>>, <<>>)
        /\ dates = <<>>
        /\ issued = EmptyBag
        /\ inflight = EmptyBag

\* the construction with since_date = today has raised
C5_Witness ==
    /\ Constructed
    /\ since_date = [valid |-> TRUE, day |-> Today]
    /\ pc = "crashed"
    /\ last.op = "__init__"
    /\ last.raised

----------------------------------------------------------------------------
(* The persistence sink *)

KeyOf(doc) == Get(doc, "script_id")

Carries(doc, item) == \A f \in DOMAIN item : f \in DOMAIN doc /\ doc[f] = item[f]

\* exactly one document of coll has the item's key, and it carries the item
Holds(coll, item) ==
    /\ Cardinality({i \in 1..Len(coll) : KeyOf(coll[i]) = KeyOf(item)}) = 1
    /\ \E i \in 1..Len(coll) :
          KeyOf(coll[i]) = KeyOf(item) /\ Carries(coll[i], item)

\* the process_item calls of a step that the store accepted
Applied(step) == {c \in {step.sink[n] : n \in 1..Len(step.sink)} : c.store_ok}
Rejected(step) ==
    {c \in {step.sink[n] : n \in 1..Len(step.sink)} : ~c.store_ok}

\* C6: the store never holds two documents with the same script_id; a step
\* that upserts a record leaves the one document of its key carrying every
\* field value of that record; and the document of a key is changed only by
\* an upsert of that key, so it always carries the most recent upsert.
C6_UpsertByKey ==
    [][/\ \A i, j \in 1..Len(collection') :
              i # j => KeyOf(collection'[i]) # KeyOf(collection'[j])
       /\ \A c \in Applied(last') : Holds(collection', c.item)
       /\ \A i \in 1..Len(collection) :
              (\A c \in Applied(last') : KeyOf(c.item) # KeyOf(collection[i]))
                  => /\ i <= Len(collection')
                     /\ collection'[i] = collection[i]
      ]_vars

\* 10001 was upserted as RecA and then as RecB: one document, name from RecB
C6_Witness ==
    /\ Applied(last) # {}
    /\ \A c \in Applied(last) : c.item = RecB(10001)
    /\ \E i \in 1..Len(collection) :
          collection[i] = [script_id |-> 10001, name |-> "b", risk |-> "high"]
    /\ Cardinality({i \in 1..Len(collection) :
                       KeyOf(collection[i]) = <<10001>>}) = 1

\* C7: a process_item call whose upsert the store rejects does not raise,
\* logs the record's script_id, returns the item and leaves the store as it
\* was; and a call the store accepts is applied to the store whatever was
\* rejected before it.
C7_RejectIsolated ==
    [][/\ \A c \in Rejected(last') \cup Applied(last') :
              ~c.raised /\ c.returned = <<c.item>>
       /\ \A c \in Rejected(last') :
              /\ collection' = collection
              /\ c.logged = <<KeyOf(c.item)>>
              /\ errlog' = BagAdd(errlog, KeyOf(c.item))
       /\ \A c \in Applied(last') :
              /\ Holds(collection', c.item)
              /\ c.logged = <<>>
              /\ errlog' = errlog
      ]_vars

\* the upsert of 10001 was rejected and logged, a later upsert of 99000 was
\* applied
C7_Witness ==
    /\ BagCount(errlog, <<10001>>) >= 1
    /\ \A i \in 1..Len(collection) : KeyOf(collection[i]) # <<10001>>
    /\ Applied(last) # {}
    /\ \A c \in Applied(last) :
          KeyOf(c.item) = <<99000>> /\ Holds(collection, c.item)

----------------------------------------------------------------------------
(* Detail responses *)

IsDetailStep(step) ==
    /\ step.op \in {"parse_plugin", "http_error"}
    /\ step.arg.url.endpoint = "nessus"

WellFormedDetail(response) ==
    /\ response.status = 200
    /\ response.json_ok
    /\ "data" \in DOMAIN response.j
    /\ "_source" \in DOMAIN response.j["data"]

BagSize(b) ==
    LET RECURSIVE Sum(_)
        Sum(S) == IF S = {} THEN 0
                  ELSE LET r == CHOOSE x \in S : TRUE
                       IN  b[r] + Sum(S \ {r})
    IN  Sum(DOMAIN b)

\* C8: a detail response that fails (not 200, not JSON, no data._source)
\* takes only its own request out of flight: the other requests stay in
\* flight, the run goes on and the store is untouched; and a well-formed
\* detail response, whatever failed before it, hands exactly its record to
\* process_item, which persists it when the store accepts the upsert.
C8_DetailFailureIsolated ==
    [][IsDetailStep(last') =>
          LET response == last'.arg
              req == Request(response.url, "parse_plugin")
          IN  /\ BagCount(inflight, req) >= 1
              /\ inflight' = BagRemove(inflight, req)
              /\ issued' = issued
              /\ pc' = pc
              /\ IF WellFormedDetail(response)
                 THEN /\ Len(last'.sink) = 1
                      /\ last'.sink[1].item = response.j["data"]["_source"]
                      /\ last'.sink[1].store_ok =>
                            Holds(collection', response.j["data"]["_source"])
                 ELSE /\ last'.sink = <<>>
                      /\ collection' = collection
      ]_vars

\* parse_plugin has raised on one response while two other detail requests
\* are in flight
C8_Witness ==
    /\ IsDetailStep(last)
    /\ last.op = "parse_plugin"
    /\ last.raised
    /\ BagSize(inflight) = 2
    /\ BagSize(issued) = 3

----------------------------------------------------------------------------
(* The full crawl *)

\* C9: in a full crawl a detail request has been issued only if the feed was
\* downloaded and every record of it parsed; while the download or the parse
\* is running, and after either has failed, no request has been issued, and
\* after a failure nothing more happens in the run.
C9_ParseBeforeDetail ==
    mode = "full" =>
        /\ issued # EmptyBag =>
              /\ pc \in {"yielding", "running"}
              /\ feed.ok
              /\ pos = Len(feed.records) + 1
        /\ pc \in {"new", "parsing", "crashed"} =>
              issued = EmptyBag /\ inflight = EmptyBag
        /\ pc = "crashed" => ~ENABLED Next

\* the parse failed after a fetchable identifier had been accumulated, and no
\* request was issued
C9_Witness ==
    /\ mode = "full"
    /\ pc = "crashed"
    /\ plugin_ids # <<>>
    /\ issued = EmptyBag

\* C10: once the feed parser is through with the feed, plugin_ids is exactly
\* the fetchable identifiers of the well-formed records, in document order;
\* a record that is not a dict, lacks script_id or has a non-numeric
\* script_id adds nothing and does not end the parse.
C10_MalformedSkipped ==
    (mode = "full" /\ feed.ok /\ pc \notin {"new", "parsing"}) =>
        /\ pc # "crashed"
        /\ plugin_ids = RangeSetTexts(feed.records)

----------------------------------------------------------------------------
(* An incremental run against a fixed upstream *)

\* The search API and the detail API answer every request the same way each
\* time: every date has 50 results on two pages, page 1 lists one fetchable
\* and one unfetchable identifier, page 2 lists two fetchable identifiers;
\* the detail of identifier k is RecA(k); the store accepts every upsert.
FixedFirstHits == <<Hit(10001), Hit(5000)>>
FixedPageHits == <<Hit(99000), Hit(20000)>>

NextFixed ==
    \/ SinceConstruct
    \/ SinceYield
    \/ SinceExhausted
    \/ SinceFirstArrives(TRUE, {50}, {FixedFirstHits})
    \/ SincePageArrives(TRUE, {50}, {FixedPageHits})
    \/ SinceDetailArrives(TRUE)

SpecFixed == InitPages /\ [][NextFixed]_vars

Range(q) == {q[i] : i \in 1..Len(q)}

\* the run is over: start_requests is exhausted and no request is outstanding
RunOver == pc = "running" /\ inflight = EmptyBag

\* the fetchable identifiers the fixed upstream lists on the pages of a date
FixedDiscovered(day) ==
    Range(RangeSetHits(FixedFirstHits)) \cup Range(RangeSetHits(FixedPageHits))

\* C11: against the fixed upstream, whatever the order of delivery, the store
\* at the end of an incremental run holds exactly one document, the record
\* of the identifier, for every fetchable identifier listed on any page of
\* any date of the window, and nothing else.
C11_OrderIndependentStore ==
    (mode = "since" /\ RunOver) =>
        LET keys == UNION {FixedDiscovered(dates[i]) : i \in 1..Len(dates)}
        IN  /\ Range(collection) = {RecA(k) : k \in keys}
            /\ Len(collection) = Cardinality(keys)

\* what the runs do agree on, in every order of delivery: the records of the
\* fetchable identifiers listed on the follow-up pages
FixedFollowUpStore ==
    (mode = "since" /\ RunOver) =>
        LET keys == UNION {Range(RangeSetHits(FixedPageHits))
                              : i \in 1..Len(dates)}
        IN  /\ Range(collection) = {RecA(k) : k \in keys}
            /\ Len(collection) = Cardinality(keys)

----------------------------------------------------------------------------
(* Detail requests stay inside the RangeSet *)

DetailRequests(bag) == {req \in DOMAIN bag : req.url.endpoint = "nessus"}

\* C12: in both crawl modes every detail request issued so far names an
\* identifier of the RangeSet: none is below 10001, in [98000,99000), in
\* [112290,117291), or at or above 500000.
C12_DetailInRangeSet ==
    \A req \in DetailRequests(issued) :
        LET id == ParseInt(req.url.plugin)
        IN  /\ req.callback = "parse_plugin"
            /\ id.ok
            /\ RangeSet(id.val)
            /\ ~(id.val < 10001)
            /\ ~(98000 <= id.val /\ id.val < 99000)
            /\ ~(112290 <= id.val /\ id.val < 117291)
            /\ ~(id.val >= 500000)

\* an incremental run has issued detail requests for the last identifier
\* below the Tenable.OT block and for the first identifier after the gap at
\* 98000
C12_Witness ==
    /\ mode = "since"
    /\ BagCount(issued, Request(DetailUrl(IntText(499999)), "parse_plugin")) >= 1
    /\ BagCount(issued, Request(DetailUrl(IntText(99000)), "parse_plugin")) >= 1

----------------------------------------------------------------------------
(* The date window: since_date up to MaxWindow days before today *)

MaxWindow == 4

\* since_date from MaxWindow days back (a day number below 0 is a date
\* before day 0) to tomorrow, or not an ISO date
InitWindow ==
    /\ mode = "since"
    /\ feed = NoFeed
    /\ since_date \in {NoSince}
           \cup {[valid |-> TRUE, day |-> d]
                    : d \in (Today - MaxWindow)..(Today + 1)}
    /\ InitCommon

\* no date of the window has a result
NextWindow ==
    \/ SinceConstruct
    \/ SinceYield
    \/ SinceExhausted
    \/ SinceDeliverFirst({0}, {<<>>})

SpecWindow == InitWindow /\ [][NextWindow]_vars

FirstRequest(day) == Request(SearchUrl(day), "scrape_all_pages")

\* C13: once the incremental spider has been constructed for since_date d,
\* its window is the dates d+1, d+2, ..., today in this order, each once;
\* start_requests has issued one first-page request for every date it has
\* passed and none for the others, and when it is exhausted it has passed all
\* of them; no other first-page request exists.
C13_WindowAndFirstRequests ==
    (Constructed /\ pc # "crashed") =>
        LET d == since_date.day
            n == Today - d
        IN  /\ since_date.valid
            /\ n >= 1
            /\ Len(dates) = n
            /\ \A i \in 1..n : dates[i] = d + i
            /\ dates[1] = d + 1 /\ dates[n] = Today
            /\ \A i \in 1..n :
                  BagCount(issued, FirstRequest(d + i))
                      = IF i < next_start THEN 1 ELSE 0
            /\ pc = "running" => next_start = n + 1
            /\ \A req \in DOMAIN issued :
                  req.callback = "scrape_all_pages" =>
                      \E i \in 1..n : req = FirstRequest(d + i)

\* start_requests is exhausted for a window of three dates
C13_Witness ==
    /\ Constructed
    /\ pc = "running"
    /\ since_date = [valid |-> TRUE, day |-> Today - 3]
    /\ dates = <<Today - 2, Today - 1, Today>>
    /\ \A i \in 1..3 : BagCount(issued, FirstRequest(dates[i])) = 1

----------------------------------------------------------------------------
(* Records handed to the persistence sink *)

\* parse_plugin ran on the step's response and returned without raising
HandledOk(step) == step.op = "parse_plugin" /\ ~step.raised

\* C14: every step hands to process_item as many records as detail responses
\* parse_plugin handled successfully in it, one or none, so the two counts
\* are equal at every point of a run: a successful detail response hands
\* over exactly the record parse_plugin took from it, and a failed one (not
\* 200, not JSON, without data._source) hands over none and leaves the store
\* and the error log as they were.
C14_OneRecordPerDetail ==
    [][/\ Len(last'.sink) = IF HandledOk(last') THEN 1 ELSE 0
       /\ IsDetailStep(last') =>
             /\ HandledOk(last') <=> WellFormedDetail(last'.arg)
             /\ HandledOk(last') =>
                   /\ last'.out = <<last'.arg.j["data"]["_source"]>>
                   /\ last'.sink[1].item = last'.out[1]
             /\ ~HandledOk(last') =>
                   /\ last'.out = <<>>
                   /\ collection' = collection
                   /\ errlog' = errlog
       /\ ~IsDetailStep(last') =>
             collection' = collection /\ errlog' = errlog
      ]_vars

\* an incremental run: both detail requests issued have been answered, and
\* the last answer was handled and its record handed over
C14_Witness ==
    /\ mode = "since"
    /\ HandledOk(last)
    /\ Len(last.sink) = 1
    /\ last.sink[1].item = RecA(10001)
    /\ BagCount(issued, Request(DetailUrl(IntText(10001)), "parse_plugin")) = 2
    /\ DetailRequests(inflight) = {}

----------------------------------------------------------------------------
(* Search responses that fail *)

IsSearchStep(step) ==
    /\ step.op \in {"scrape_all_pages", "scape_page", "http_error"}
    /\ step.arg.url.endpoint = "search"

\* the search response of the step was not 200, or its callback raised
FailedSearchStep(step) ==
    IsSearchStep(step) /\ (step.op = "http_error" \/ step.raised)

SearchRequest(url) ==
    Request(url, IF url.page = <<>> THEN "scrape_all_pages" ELSE "scape_page")

\* C15: a search response, first page or follow-up, that fails or is
\* malformed costs only its own request: every other outstanding request
\* stays outstanding, what its callback had yielded before it raised stays
\* issued, the run goes on and the store is untouched; and the search
\* response handled next, of another date or another page, is processed and
\* every fetchable identifier it lists gets a detail request.
C15_PageFailureIsolated ==
    [][/\ FailedSearchStep(last') =>
             /\ BagCount(inflight, SearchRequest(last'.arg.url)) >= 1
             /\ inflight' = BagAddAll(BagRemove(inflight,
                                                SearchRequest(last'.arg.url)),
                                      last'.out)
             /\ issued' = BagAddAll(issued, last'.out)
             /\ pc' = pc
             /\ collection' = collection
       /\ (FailedSearchStep(last) /\ IsSearchStep(last')
               /\ ~FailedSearchStep(last')
               /\ WellFormedHits(FirstPageHits(last'.arg))) =>
             \A id \in Range(RangeSetHits(FirstPageHits(last'.arg))) :
                 BagCount(issued',
                          Request(DetailUrl(IntText(id)), "parse_plugin")) >= 1
      ]_vars

\* the isolation alone, which every step keeps: a failed search response
\* costs only its own request, and a follow-up page handled next gets its
\* detail requests
SearchFailureContained ==
    [][/\ FailedSearchStep(last') =>
             /\ inflight' = BagAddAll(BagRemove(inflight,
                                                SearchRequest(last'.arg.url)),
                                      last'.out)
             /\ issued' = BagAddAll(issued, last'.out)
             /\ pc' = pc
             /\ collection' = collection
       /\ (FailedSearchStep(last) /\ last'.op = "scape_page"
               /\ ~last'.raised) =>
             \A id \in Range(RangeSetHits(FirstPageHits(last'.arg))) :
                 BagCount(issued',
                          Request(DetailUrl(IntText(id)), "parse_plugin")) >= 1
      ]_vars

----------------------------------------------------------------------------
(* Progress of an incremental run *)

\* Scrapy's engine keeps pulling start_requests while it has requests to
\* give, and its downloader ends every request it was given with a response
\* (or an error status) that the engine hands to the callback: no step that
\* stays possible is put off forever.  A follow-up page lists nothing, one
\* fetchable hit, or one fetchable hit and a malformed one.
FairHitSeqs == {<<>>, <<Hit(10001)>>, <<Hit(10001), HitNoSource>>}

NextSinceFair ==
    \/ SinceConstruct
    \/ SinceYield
    \/ SinceExhausted
    \/ SinceDeliverFirst(Totals, FirstHitSeqs)
    \/ SinceDeliverPage(PageTotals, FairHitSeqs)
    \/ SinceDeliverDetail

FairSince ==
    /\ WF_vars(SinceConstruct)
    /\ WF_vars(SinceYield)
    /\ WF_vars(SinceExhausted)
    /\ WF_vars(SinceDeliverFirst(Totals, FirstHitSeqs))
    /\ WF_vars(SinceDeliverPage(PageTotals, FairHitSeqs))
    /\ WF_vars(SinceDeliverDetail)

SpecSinceFair == InitPages /\ [][NextSinceFair]_vars /\ FairSince

WindowDays == 1..Today

PageRequests(bag, day) ==
    {req \in DOMAIN bag :
        /\ req.url.endpoint = "search"
        /\ req.url.day = day
        /\ req.url.page # <<>>}

\* where the search of a date stands
Phase(day) ==
    IF BagCount(issued, FirstRequest(day)) = 0 THEN "IDLE"
    ELSE IF BagCount(inflight, FirstRequest(day)) >= 1
    THEN "QUERY_FIRST_PAGE"
    ELSE IF PageRequests(inflight, day) # {} THEN "QUERY_REMAINING_PAGES"
    ELSE "DONE"

PhaseOrder ==
    {<<"IDLE", "QUERY_FIRST_PAGE">>,
     <<"QUERY_FIRST_PAGE", "QUERY_REMAINING_PAGES">>,
     <<"QUERY_FIRST_PAGE", "DONE">>,
     <<"QUERY_REMAINING_PAGES", "DONE">>}

\* C16: when every step that stays possible is eventually taken, each date
\* of the window moves only forward through QUERY_FIRST_PAGE, the page-count
\* determination made by scrape_all_pages on its first response, and
\* QUERY_REMAINING_PAGES, whose requests are for pages from 2 on and are
\* issued by that determination only; once its first-page request is out it
\* eventually reaches DONE and stays there; and the run eventually has
\* passed start_requests with every date of the window DONE and no request
\* outstanding, for ever.
C16_EveryDateDone ==
    /\ [][\A day \in WindowDays :
             /\ Phase(day)' # Phase(day) =>
                   <<Phase(day), Phase(day)'>> \in PhaseOrder
             /\ (Phase(day) = "QUERY_FIRST_PAGE"
                     /\ Phase(day)' # "QUERY_FIRST_PAGE") =>
                   /\ last'.op \in {"scrape_all_pages", "http_error"}
                   /\ last'.arg.url = SearchUrl(day)
             /\ PageRequests(issued', day) # PageRequests(issued, day) =>
                   /\ last'.op = "scrape_all_pages"
                   /\ last'.arg.url = SearchUrl(day)
          ]_vars
    /\ [](\A day \in WindowDays :
             \A req \in PageRequests(issued, day) :
                 /\ req.callback = "scape_page"
                 /\ Len(req.url.page) = 1
                 /\ req.url.page[1] >= 2)
    /\ \A day \in WindowDays :
          (Phase(day) = "QUERY_FIRST_PAGE") ~> [](Phase(day) = "DONE")
    /\ <>[](/\ pc = "running"
            /\ inflight = EmptyBag
            /\ \A i \in 1..Len(dates) : Phase(dates[i]) = "DONE")

\* a date is DONE after a follow-up page of it was requested and
\* answered, while the other date still waits for its first response
C16_Witness ==
    /\ mode = "since"
    /\ Phase(1) = "DONE"
    /\ PageRequests(issued, 1) # {}
    /\ Phase(2) = "QUERY_FIRST_PAGE"

----------------------------------------------------------------------------
(* Two full crawls in one process *)

MaxRuns == 2

RunSamples == {Nasl(IntText(i)) : i \in {5000, 10001, 99000}}

RunFeeds == Feeds(RunSamples, MaxFeed - 1)

\* a further FullTenableSpider is created and crawled in the process (a
\* CrawlerProcess or CrawlerRunner given the spider again) once the crawl
\* before it is over.  The instance has its own requests and its own feed
\* download; plugin_ids is the class attribute of line 42, the one list
\* object every instance appends to and iterates, so nothing resets it.
FullRestart ==
    /\ mode = "full" /\ run < MaxRuns
    /\ pc \in {"running", "crashed"} /\ inflight = EmptyBag
    /\ run' = run + 1
    /\ pc' = "new"
    /\ feed' \in RunFeeds
    /\ pos' = 1
    /\ next_start' = 1
    /\ issued' = EmptyBag
    /\ last' = Step("restart", run + 1, FALSE, <<>>, <<>>)
    /\ UNCHANGED <<mode, plugin_ids, since_date, dates, inflight, collection,
                   errlog>>

InitRuns ==
    /\ mode = "full"
    /\ feed \in RunFeeds
    /\ since_date = NoSince
    /\ InitCommon

\* the detail API answers every request with the record of the identifier
NextRuns ==
    \/ FullDownload
    \/ FullParseRecord
    \/ FullParseDone
    \/ FullYield
    \/ FullExhausted
    \/ FullDetailArrives(TRUE)
    \/ FullRestart

SpecRuns == InitRuns /\ [][NextRuns]_vars

Occurrences(q, x) == Cardinality({i \in 1..Len(q) : q[i] = x})

\* C17: a full crawl starts with an empty accumulation list, whatever crawl
\* ran before it in the process; the list holds only identifiers of the
\* feed this crawl has parsed, and once its start_requests is exhausted its
\* detail requests are one per fetchable record of that feed.
C17_RunOwnsIdentifiers ==
    mode = "full" =>
        /\ pc = "new" => plugin_ids = <<>>
        /\ feed.ok =>
              plugin_ids = RangeSetTexts(SubSeq(feed.records, 1, pos - 1))
        /\ (feed.ok /\ pc = "running") =>
              /\ \A req \in DOMAIN issued :
                    /\ req.callback = "parse_plugin"
                    /\ BagCount(issued, req)
                          = Occurrences(RangeSetTexts(feed.records),
                                        req.url.plugin)
              /\ \A i \in 1..Len(RangeSetTexts(feed.records)) :
                    BagCount(issued,
                             Request(DetailUrl(RangeSetTexts(feed.records)[i]),
                                     "parse_plugin")) >= 1

----------------------------------------------------------------------------
(* What an upsert leaves alone *)

\* C18: no step removes a document or a field from the store: every
\* document stays at its place with all its fields; a document whose key no
\* record upserted in the step has is unchanged; and in the document of an
\* upserted record's key a field changes only to the value the record gives
\* it, so every field the record does not have keeps its value.
C18_UpsertKeepsTheRest ==
    [][/\ Len(collection') >= Len(collection)
       /\ \A i \in 1..Len(collection) :
             /\ KeyOf(collection'[i]) = KeyOf(collection[i])
             /\ (\A c \in Applied(last') :
                     KeyOf(c.item) # KeyOf(collection[i]))
                   => collection'[i] = collection[i]
             /\ \A f \in DOMAIN collection[i] :
                   /\ f \in DOMAIN collection'[i]
                   /\ collection'[i][f] # collection[i][f] =>
                         \E c \in Applied(last') :
                             /\ KeyOf(c.item) = KeyOf(collection[i])
                             /\ f \in DOMAIN c.item
                             /\ collection'[i][f] = c.item[f]
      ]_vars

\* RecB, which has no risk field, was upserted for 99000 over RecA: the
\* document of 99000 kept its risk, and the document of 10001 before it in
\* the store is as it was inserted
C18_Witness ==
    /\ Applied(last) # {}
    /\ \A c \in Applied(last) : c.item = RecB(99000)
    /\ collection = <<RecA(10001),
                      [script_id |-> 99000, name |-> "b", risk |-> "high"]>>

====
